---- MODULE Spec2Model ----
(***************************************************************************)
(* Model of the OCR text-extraction engine of LMN-Overlay:                  *)
(*   services/ocr_service.py  (OCRService: attempt loop, scoring, cleaner)  *)
(*   routes/ocr.py            (session aggregator: upload, process,         *)
(*                             reorder, reprocess, delete, edit-text)       *)
(*   models.py                (OCRSession, OCRImage)                        *)
(*                                                                         *)
(* Text is a sequence of one-character strings.  A confidence is an        *)
(* integer 0..100; a score is kept multiplied by 100 so that               *)
(* confidence * (1 + min(len / 100, 1.0)) stays an integer.                *)
(***************************************************************************)
EXTENDS Integers, Sequences, FiniteSets, TLC

VARIABLES sessions, images, next_session_id, next_image_id, disk,
          pc, loc, ocr, cl, sc

vars == <<sessions, images, next_session_id, next_image_id, disk,
          pc, loc, ocr, cl, sc>>

\* sessions, images: the tables ocr_sessions and ocr_images by primary key;
\* disk: the ids of the image units whose backing file is on disk
dbVars == <<sessions, images, next_session_id, next_image_id, disk>>

----------------------------------------------------------------------------
(* Bounds *)

MaxSessions == 1
MaxImages == 2
MaxBatch == 3
MaxFiles == 2
MaxLen == 5
MaxDeleteSessions == 2
MaxConcImages == 2
MaxRunImages == 2
MaxUploadImages == 4

----------------------------------------------------------------------------
(* Values *)

NULL == "NULL"
Workers == {1}

----------------------------------------------------------------------------
(* Text: Python str as a sequence of characters *)

NL == "\n"
Whitespace == {" ", NL, "\t"}

RECURSIVE lstrip(_)
lstrip(s) ==
    IF s = <<>> THEN <<>>
    ELSE IF Head(s) \in Whitespace THEN lstrip(Tail(s)) ELSE s

RECURSIVE rstrip(_)
rstrip(s) ==
    IF s = <<>> THEN <<>>
    ELSE IF s[Len(s)] \in Whitespace THEN rstrip(SubSeq(s, 1, Len(s) - 1)) ELSE s

strip(s) == rstrip(lstrip(s))

\* str.split(sep): the list of fields between the separators (never empty)
RECURSIVE SplitAcc(_, _, _)
SplitAcc(s, sep, cur) ==
    IF s = <<>> THEN <<cur>>
    ELSE IF Head(s) = sep THEN <<cur>> \o SplitAcc(Tail(s), sep, <<>>)
    ELSE SplitAcc(Tail(s), sep, Append(cur, Head(s)))

split(s, sep) == SplitAcc(s, sep, <<>>)

\* sep.join(parts)
RECURSIVE join(_, _)
join(sep, parts) ==
    IF parts = <<>> THEN <<>>
    ELSE IF Len(parts) = 1 THEN parts[1]
    ELSE parts[1] \o sep \o join(sep, Tail(parts))

RECURSIVE FilterNonEmpty(_)
FilterNonEmpty(ls) ==
    IF ls = <<>> THEN <<>>
    ELSE IF Head(ls) # <<>> THEN <<Head(ls)>> \o FilterNonEmpty(Tail(ls))
    ELSE FilterNonEmpty(Tail(ls))

\* the empty lines are dropped before the lines are stripped
clean_text_filter_first(text) ==
    IF text = <<>> THEN <<>>
    ELSE LET raw == FilterNonEmpty(split(text, NL))
             lines == [i \in 1..Len(raw) |-> strip(raw[i])]
         IN  join(<<NL>>, lines)

\* OCRService.clean_text
clean_text(text) ==
    IF text = <<>> THEN <<>>
    ELSE LET raw == split(text, NL)
             lines == [i \in 1..Len(raw) |-> strip(raw[i])]
         IN  join(<<NL>>, FilterNonEmpty(lines))

SEPARATOR == <<NL, NL>>

----------------------------------------------------------------------------
(* Recognition engine: services/ocr_service.py *)

ABSENT == "ABSENT"          \* a key that is not in a dict
NoText == <<"None">>        \* Python None in a text column / field

\* the default of the lang parameter of extract_text_from_image and of
\* extract_text_with_multiple_strategies
SERVICE_DEFAULT_LANG == "eng"

PSM_MODES == <<3, 6, 4, 1, 11, 12>>
STRATEGIES == <<"advanced", "basic", "none">>

ERR_NO_PSM == "No text extracted from any PSM mode"
ERR_NO_TEXT == "No text extracted"

\* What the backend does in one iteration of the PSM loop (lines 187-211):
\* exc: preprocessing, Image.open or image_to_string raised;
\* text: the string image_to_string returned;
\* conf: avg_confidence (0 when image_to_data raised or reported no token).
Outcome(e, t, c) == [exc |-> e, text |-> t, conf |-> c]
Raised == Outcome(TRUE, <<>>, 0)

\* best_result = {'text': '', 'confidence': 0}   (psm 0: no 'psm' key)
InitBest == [text |-> <<>>, confidence |-> 0, psm |-> 0]

\* a result of equal confidence replaces the running best
KeepBestGE(best, psm, o) ==
    IF o.conf >= best.confidence /\ Len(strip(o.text)) > 0
    THEN [text |-> strip(o.text), confidence |-> o.conf, psm |-> psm]
    ELSE best

\* lines 213-219: keep the result with highest confidence and non-blank text
KeepBest(best, psm, o) ==
    IF o.conf > best.confidence /\ Len(strip(o.text)) > 0
    THEN [text |-> strip(o.text), confidence |-> o.conf, psm |-> psm]
    ELSE best

\* any text with a confidence above 40 ends the loop
GoodEnoughLow(o) == o.conf > 40 /\ Len(strip(o.text)) > 0

\* line 222: good confidence and meaningful text, stop trying
GoodEnough(o) == o.conf > 75 /\ Len(strip(o.text)) > 10

\* the failure dict carries no reason
FinalResultNoReason(best) ==
    IF best.text # <<>>
    THEN [success |-> TRUE, text |-> best.text, confidence |-> best.confidence,
          psm_used |-> IF best.psm = 0 THEN 3 ELSE best.psm,
          error |-> NULL, strategy |-> ABSENT]
    ELSE [success |-> FALSE, text |-> <<>>, confidence |-> 0,
          psm_used |-> 0, error |-> NULL, strategy |-> ABSENT]

\* lines 229-243: the dict extract_text_from_image returns
FinalResult(best) ==
    IF best.text # <<>>
    THEN [success |-> TRUE, text |-> best.text, confidence |-> best.confidence,
          psm_used |-> IF best.psm = 0 THEN 3 ELSE best.psm,
          error |-> NULL, strategy |-> ABSENT]
    ELSE [success |-> FALSE, text |-> <<>>, confidence |-> 0,
          psm_used |-> 0, error |-> ERR_NO_PSM, strategy |-> ABSENT]

\* line 266: best_result = {'text': '', 'confidence': 0}: no 'success' key
\* (result.get('success') is None, falsy) and no 'error' key
InitMultiBest ==
    [success |-> FALSE, text |-> <<>>, confidence |-> 0,
     psm_used |-> 0, error |-> ABSENT, strategy |-> ABSENT]

Min(a, b) == IF a < b THEN a ELSE b

\* the length bonus without its cap
ScoreNoCap(confidence, text_length) == confidence * (100 + text_length)

\* line 276: score = confidence * (1 + min(text_length / 100, 1.0)), times 100
Score(confidence, text_length) == confidence * (100 + Min(text_length, 100))

\* lines 271-281: the strategy's result replaces the running best
SelectBest(best, result, strategy) ==
    LET text_length == Len(strip(result.text))
        score == Score(result.confidence, text_length)
        best_score == Score(best.confidence, Len(best.text))
    IN  IF result.success /\ score > best_score
        THEN [result EXCEPT !.strategy = strategy]
        ELSE best

\* the text has to be longer than the cap of the length bonus
ExcellentLong(result) ==
    result.success /\ result.confidence > 80 /\ Len(strip(result.text)) > 100

\* line 284: excellent result, stop
Excellent(result) ==
    result.success /\ result.confidence > 80 /\ Len(strip(result.text)) > 20

\* extract_text_from_image, lines 184-243, over the outcomes os[1..6] of the
\* six PSM iterations; the result and the number of iterations executed
RECURSIVE PsmLoop(_, _, _)
PsmLoop(os, k, best) ==
    IF k > Len(PSM_MODES) THEN [best |-> best, executed |-> k - 1]
    ELSE IF os[k].exc THEN PsmLoop(os, k + 1, best)
    ELSE IF GoodEnough(os[k])
         THEN [best |-> KeepBest(best, PSM_MODES[k], os[k]), executed |-> k]
         ELSE PsmLoop(os, k + 1, KeepBest(best, PSM_MODES[k], os[k]))

extract_text_from_image(os) == FinalResult(PsmLoop(os, 1, InitBest).best)

\* extract_text_with_multiple_strategies, lines 265-287; oracle[s] are the
\* outcomes of the PSM iterations under STRATEGIES[s]
RECURSIVE StrategyLoop(_, _, _)
StrategyLoop(oracle, s, best) ==
    IF s > Len(STRATEGIES) THEN best
    ELSE LET result == extract_text_from_image(oracle[s])
             nb == SelectBest(best, result, STRATEGIES[s])
         IN  IF Excellent(result) THEN nb ELSE StrategyLoop(oracle, s + 1, nb)

extract_text_with_multiple_strategies(oracle) ==
    StrategyLoop(oracle, 1, InitMultiBest)

\* the index of a preprocessing value in STRATEGIES; line 195: anything that
\* is neither 'advanced' nor 'basic' opens the image unprocessed
StrategyIndex(preprocessing) ==
    IF preprocessing = "advanced" THEN 1
    ELSE IF preprocessing = "basic" THEN 2 ELSE 3

----------------------------------------------------------------------------
(* Records: models.py *)

\* OCRSession(name, category, status='active'); combined_text NULL,
\* image_count default 0
NewSession ==
    [combined_text |-> NoText, image_count |-> 0, status |-> "active"]

\* OCRImage(..., order_index, session_id, status='pending')
NewImage(session_id, order_index) ==
    [session_id |-> session_id, order_index |-> order_index,
     extracted_text |-> NoText, status |-> "pending", error_message |-> NULL]

SessionIds == DOMAIN sessions
ImageIds == DOMAIN images

\* OCRImage.query.filter_by(session_id=session_id)
ImagesOf(imgs, session_id) ==
    {i \in DOMAIN imgs : imgs[i].session_id = session_id}

Perms(S) ==
    {p \in [1..Cardinality(S) -> S] : \A i, j \in 1..Cardinality(S) : i # j => p[i] # p[j]}

\* the query without its order_by: the rows in any order
OrderedImagesUnordered(imgs, session_id) == Perms(ImagesOf(imgs, session_id))

\* .order_by(OCRImage.order_index).all(): every order the database may
\* return (rows with equal order_index come in an unspecified order)
OrderedImages(imgs, session_id) ==
    {p \in Perms(ImagesOf(imgs, session_id)) :
        \A i, j \in 1..Len(p) : i < j => imgs[p[i]].order_index <= imgs[p[j]].order_index}

\* truthiness of a nullable text: None and '' are falsy
Truthy(text) == text # NoText /\ text # <<>>

----------------------------------------------------------------------------
(* Request handlers: routes/ocr.py *)

IdleLoc ==
    [session_id |-> 0, image_id |-> 0, images |-> <<>>, i |-> 0,
     lang |-> "", use_multiple_strategies |-> FALSE, preprocessing |-> "",
     combined_text_parts |-> <<>>, results |-> <<>>, result |-> InitMultiBest,
     files |-> <<>>, max_order |-> -1]

Idle(w) == pc[w] = "idle"

\* create_session
create_session(w, cap) ==
    /\ Idle(w)
    /\ next_session_id <= cap
    /\ sessions' = (next_session_id :> NewSession) @@ sessions
    /\ next_session_id' = next_session_id + 1
    /\ UNCHANGED <<images, next_image_id, disk, pc, loc, ocr, cl, sc>>

SetMax(S) == CHOOSE m \in S : \A x \in S : x <= m

\* lines 72-73: db.func.max(order_index) ... .scalar() or -1
MaxOrder(imgs, session_id) ==
    LET S == {imgs[i].order_index : i \in ImagesOf(imgs, session_id)}
    IN  IF S = {} THEN -1
        ELSE IF SetMax(S) = 0 THEN -1 ELSE SetMax(S)

\* lines 75-96: the loop over enumerate(files); k - 1 is idx, "" an entry
\* with an empty filename
RECURSIVE AddFiles(_, _, _, _, _, _)
AddFiles(imgs, files, k, max_order, session_id, next_id) ==
    IF k > Len(files) THEN [images |-> imgs, next_id |-> next_id]
    ELSE IF files[k] = "" THEN AddFiles(imgs, files, k + 1, max_order, session_id, next_id)
    ELSE AddFiles((next_id :> NewImage(session_id, max_order + (k - 1) + 1)) @@ imgs,
                  files, k + 1, max_order, session_id, next_id + 1)

FileLists == UNION {[1..n -> {"", "f"}] : n \in 1..MaxFiles}

NumFiles(files) == Cardinality({k \in 1..Len(files) : files[k] # ""})

\* upload_images
upload_images(w, session_id, files, cap) ==
    /\ Idle(w)
    /\ session_id \in SessionIds
    /\ next_image_id + NumFiles(files) - 1 <= cap
    /\ LET r == AddFiles(images, files, 1, MaxOrder(images, session_id),
                         session_id, next_image_id)
       IN  /\ images' = r.images
           /\ next_image_id' = r.next_id
           /\ disk' = disk \cup (next_image_id..(r.next_id - 1))
           /\ sessions' = [sessions EXCEPT ![session_id].image_count =
                              Cardinality(ImagesOf(r.images, session_id))]
    /\ UNCHANGED <<next_session_id, pc, loc, ocr, cl, sc>>

\* lines 223-225: texts of the completed images, in the order given
RECURSIVE CompletedTexts(_, _)
CompletedTexts(imgs, order) ==
    IF order = <<>> THEN <<>>
    ELSE IF Truthy(imgs[Head(order)].extracted_text) /\ imgs[Head(order)].status = "completed"
         THEN <<imgs[Head(order)].extracted_text>> \o CompletedTexts(imgs, Tail(order))
         ELSE CompletedTexts(imgs, Tail(order))

\* lines 211-215: the loop over enumerate(image_order)
\* "if idx and image ...": the entry at index 0 is skipped
RECURSIVE AssignOrderSkipFirst(_, _, _, _)
AssignOrderSkipFirst(imgs, order, k, session_id) ==
    IF k > Len(order) THEN imgs
    ELSE IF k - 1 # 0 /\ order[k] \in DOMAIN imgs /\ imgs[order[k]].session_id = session_id
         THEN AssignOrderSkipFirst([imgs EXCEPT ![order[k]].order_index = k - 1],
                                   order, k + 1, session_id)
         ELSE AssignOrderSkipFirst(imgs, order, k + 1, session_id)

RECURSIVE AssignOrder(_, _, _, _)
AssignOrder(imgs, order, k, session_id) ==
    IF k > Len(order) THEN imgs
    ELSE IF order[k] \in DOMAIN imgs /\ imgs[order[k]].session_id = session_id
         THEN AssignOrder([imgs EXCEPT ![order[k]].order_index = k - 1],
                          order, k + 1, session_id)
         ELSE AssignOrder(imgs, order, k + 1, session_id)

\* the image ids a request may name: every id handed out so far and one
\* that was never handed out
KnownIds == 1..next_image_id

OrderInputs == UNION {[1..n -> KnownIds] : n \in 0..(next_image_id - 1)}

\* reorder_images
reorder_images(w, session_id, order) ==
    /\ Idle(w)
    /\ session_id \in SessionIds
    /\ images' = AssignOrder(images, order, 1, session_id)
    /\ \E sorted \in OrderedImages(images', session_id) :
          sessions' = [sessions EXCEPT ![session_id].combined_text =
                          join(SEPARATOR, CompletedTexts(images', sorted))]
    /\ UNCHANGED <<next_session_id, next_image_id, disk, pc, loc, ocr, cl, sc>>

Remove(f, S) == [x \in (DOMAIN f) \ S |-> f[x]]

\* the members are counted before the delete reaches the database
delete_image_stale_count(w, image_id) ==
    /\ Idle(w)
    /\ image_id \in ImageIds
    /\ disk' = disk \ {image_id}
    /\ images' = Remove(images, {image_id})
    /\ LET session_id == images[image_id].session_id
       IN  sessions' = IF session_id \in SessionIds
                       THEN [sessions EXCEPT ![session_id].image_count =
                                Cardinality(ImagesOf(images, session_id))]
                       ELSE sessions
    /\ UNCHANGED <<next_session_id, next_image_id, pc, loc, ocr, cl, sc>>

\* delete_image
delete_image(w, image_id) ==
    /\ Idle(w)
    /\ image_id \in ImageIds
    /\ disk' = disk \ {image_id}
    /\ images' = Remove(images, {image_id})
    /\ LET session_id == images[image_id].session_id
       IN  sessions' = IF session_id \in SessionIds
                       THEN [sessions EXCEPT ![session_id].image_count =
                                Cardinality(ImagesOf(images', session_id))]
                       ELSE sessions
    /\ UNCHANGED <<next_session_id, next_image_id, pc, loc, ocr, cl, sc>>

\* the query for the images has no filter on the session
delete_session_all(w, session_id) ==
    /\ Idle(w)
    /\ session_id \in SessionIds
    /\ disk' = disk \ ImageIds
    /\ images' = Remove(images, ImageIds)
    /\ sessions' = Remove(sessions, {session_id})
    /\ UNCHANGED <<next_session_id, next_image_id, pc, loc, ocr, cl, sc>>

\* delete_session
delete_session(w, session_id) ==
    /\ Idle(w)
    /\ session_id \in SessionIds
    /\ disk' = disk \ ImagesOf(images, session_id)
    /\ images' = Remove(images, ImagesOf(images, session_id))
    /\ sessions' = Remove(sessions, {session_id})
    /\ UNCHANGED <<next_session_id, next_image_id, pc, loc, ocr, cl, sc>>

EditTexts == {<<>>, <<"z">>}

\* edit_combined_text
edit_combined_text(w, session_id, text) ==
    /\ Idle(w)
    /\ session_id \in SessionIds
    /\ sessions' = [sessions EXCEPT ![session_id].combined_text = text]
    /\ UNCHANGED <<images, next_session_id, next_image_id, disk, pc, loc, ocr, cl, sc>>

----------------------------------------------------------------------------
(* The backend as the session handlers see it *)

IdChar == <<"1", "2", "3", "4", "5", "6", "7", "8", "9">>

\* what image_to_string reads from an image
RawText(image_id) == <<" ", IdChar[image_id], NL, " ", NL, "x", " ">>

BlankText == <<" ", NL>>

AllPsm(o) == [k \in 1..Len(PSM_MODES) |-> o]

\* the behaviours of the backend over the planned attempts of one image:
\* oracle[s][k] is the outcome under STRATEGIES[s] and PSM_MODES[k].
\* Every call raises; every call finds no text; text is found but no token
\* confidence; text is found with confidence 90.
Oracles(image_id) ==
    { [s \in 1..Len(STRATEGIES) |-> AllPsm(Raised)],
      [s \in 1..Len(STRATEGIES) |-> AllPsm(Outcome(FALSE, BlankText, 0))],
      [s \in 1..Len(STRATEGIES) |-> AllPsm(Outcome(FALSE, RawText(image_id), 0))],
      [s \in 1..Len(STRATEGIES) |-> AllPsm(Outcome(FALSE, RawText(image_id), 90))] }

\* dict.get(key, default)
Get(value, default) == IF value = ABSENT THEN default ELSE value

\* the failure branch leaves the status as it is
StoreResultKeepStatus(image, result) ==
    IF result.success /\ result.text # <<>>
    THEN [image EXCEPT !.extracted_text = clean_text(result.text),
                       !.status = "completed"]
    ELSE [image EXCEPT !.error_message = Get(result.error, ERR_NO_TEXT)]

\* the outcome is stored without looking at it
StoreResultAlwaysCompleted(image, result) ==
    [image EXCEPT !.extracted_text = clean_text(result.text),
                  !.status = "completed"]

\* lines 150-156 and 372-377: store the outcome on the image unit
StoreResult(image, result) ==
    IF result.success /\ result.text # <<>>
    THEN [image EXCEPT !.extracted_text = clean_text(result.text),
                       !.status = "completed"]
    ELSE [image EXCEPT !.status = "failed",
                       !.error_message = Get(result.error, ERR_NO_TEXT)]

\* lines 161-169: the entry of the response for one image
ResultEntry(image_id, image, result) ==
    [image_id |-> image_id, status |-> image.status, text |-> image.extracted_text,
     confidence |-> result.confidence, strategy |-> Get(result.strategy, "unknown"),
     error |-> Get(result.error, NULL)]

\* lines 136-139
RunOcr(oracle, use_multiple_strategies, preprocessing) ==
    IF use_multiple_strategies
    THEN extract_text_with_multiple_strategies(oracle)
    ELSE extract_text_from_image(oracle[StrategyIndex(preprocessing)])

Languages == {ABSENT, "eng"}
Preprocessings == {ABSENT, "none"}

\* process_session, lines 112-125
process_session_begin(w, session_id, language, use_multiple_strategies) ==
    /\ Idle(w)
    /\ session_id \in SessionIds
    /\ \E imgs \in OrderedImages(images, session_id) :
          IF imgs = <<>>
          THEN UNCHANGED <<pc, loc>>
          ELSE /\ pc' = [pc EXCEPT ![w] = "ps_mark"]
               /\ loc' = [loc EXCEPT ![w] =
                            [IdleLoc EXCEPT !.session_id = session_id,
                                            !.images = imgs, !.i = 1,
                                            !.lang = Get(language, "en"),
                                            !.use_multiple_strategies = use_multiple_strategies]]
    /\ UNCHANGED <<dbVars, ocr, cl, sc>>

\* process_session, lines 127-129: status 'processing' is committed
process_session_mark(w) ==
    /\ pc[w] = "ps_mark"
    /\ LET image_id == loc[w].images[loc[w].i]
       IN  images' = [images EXCEPT ![image_id].status = "processing"]
    /\ pc' = [pc EXCEPT ![w] = "ps_ocr"]
    /\ UNCHANGED <<sessions, next_session_id, next_image_id, disk, loc, ocr, cl, sc>>

\* a failed image ends the loop
AfterImageStopOnFailure(l, image, result, entry) ==
    [l EXCEPT !.result = result,
              !.combined_text_parts =
                 IF image.status = "completed"
                 THEN Append(@, image.extracted_text) ELSE @,
              !.results = Append(@, entry),
              !.i = IF image.status = "completed" THEN @ + 1 ELSE Len(l.images) + 1]

\* lines 153, 161 and 127: the locals after one image was handled
AfterImage(l, image, result, entry) ==
    [l EXCEPT !.result = result,
              !.combined_text_parts =
                 IF image.status = "completed"
                 THEN Append(@, image.extracted_text) ELSE @,
              !.results = Append(@, entry),
              !.i = @ + 1]

\* process_session, lines 131-169: the pipeline of one image and its commit
process_session_image(w, oracle) ==
    /\ pc[w] = "ps_ocr"
    /\ LET image_id == loc[w].images[loc[w].i]
           result == RunOcr(oracle, loc[w].use_multiple_strategies, "basic")
           image == StoreResult(images[image_id], result)
           l == AfterImage(loc[w], image, result, ResultEntry(image_id, image, result))
       IN  /\ oracle \in Oracles(image_id)
           /\ images' = [images EXCEPT ![image_id] = image]
           /\ loc' = [loc EXCEPT ![w] = l]
           /\ pc' = [pc EXCEPT ![w] =
                       IF l.i <= Len(l.images) THEN "ps_mark" ELSE "ps_finish"]
    /\ UNCHANGED <<sessions, next_session_id, next_image_id, disk, ocr, cl, sc>>

\* process_session, lines 188-199
process_session_finish(w) ==
    /\ pc[w] = "ps_finish"
    /\ sessions' = [sessions EXCEPT
                      ![loc[w].session_id].combined_text =
                          join(SEPARATOR, loc[w].combined_text_parts),
                      ![loc[w].session_id].status = "completed"]
    /\ pc' = [pc EXCEPT ![w] = "idle"]
    /\ loc' = [loc EXCEPT ![w] = IdleLoc]
    /\ UNCHANGED <<images, next_session_id, next_image_id, disk, ocr, cl, sc>>

\* reprocess_single_image, lines 351-358
reprocess_begin(w, image_id, language, preprocessing) ==
    /\ Idle(w)
    /\ image_id \in ImageIds
    /\ pc' = [pc EXCEPT ![w] = "rp_ocr"]
    /\ loc' = [loc EXCEPT ![w] =
                 [IdleLoc EXCEPT !.image_id = image_id,
                                 !.session_id = images[image_id].session_id,
                                 !.lang = Get(language, "en"),
                                 !.preprocessing = Get(preprocessing, "basic")]]
    /\ UNCHANGED <<dbVars, ocr, cl, sc>>

\* the outcome is stored on every image unit of the session
reprocess_image_session(w, oracle) ==
    /\ pc[w] = "rp_ocr"
    /\ LET image_id == loc[w].image_id
           result == RunOcr(oracle, FALSE, loc[w].preprocessing)
       IN  /\ oracle \in Oracles(image_id)
           /\ images' = [j \in ImageIds |->
                            IF images[j].session_id = images[image_id].session_id
                            THEN StoreResult(images[j], result) ELSE images[j]]
    /\ pc' = [pc EXCEPT ![w] = "idle"]
    /\ loc' = [loc EXCEPT ![w] = IdleLoc]
    /\ UNCHANGED <<sessions, next_session_id, next_image_id, disk, ocr, cl, sc>>

\* reprocess_single_image, lines 360-387
reprocess_image(w, oracle) ==
    /\ pc[w] = "rp_ocr"
    /\ LET image_id == loc[w].image_id
           result == RunOcr(oracle, FALSE, loc[w].preprocessing)
       IN  /\ oracle \in Oracles(image_id)
           /\ images' = [images EXCEPT ![image_id] = StoreResult(@, result)]
    /\ pc' = [pc EXCEPT ![w] = "idle"]
    /\ loc' = [loc EXCEPT ![w] = IdleLoc]
    /\ UNCHANGED <<sessions, next_session_id, next_image_id, disk, ocr, cl, sc>>

\* every behaviour of the backend the handlers are run against
AllOracles == UNION {Oracles(i) : i \in ImageIds}

----------------------------------------------------------------------------
(* The session aggregator, one request at a time *)

OcrIdle == [stage |-> "off"]
ClIdle == [stage |-> "off"]
ScIdle == [stage |-> "off"]

Init ==
    /\ sessions = <<>>
    /\ images = <<>>
    /\ next_session_id = 1
    /\ next_image_id = 1
    /\ disk = {}
    /\ pc = [w \in Workers |-> "idle"]
    /\ loc = [w \in Workers |-> IdleLoc]
    /\ ocr = OcrIdle
    /\ cl = ClIdle
    /\ sc = ScIdle

Next ==
    \E w \in Workers :
       \/ create_session(w, MaxSessions)
       \/ \E session_id \in SessionIds, files \in FileLists :
             upload_images(w, session_id, files, MaxImages)
       \/ \E session_id \in SessionIds, language \in Languages, ums \in BOOLEAN :
             process_session_begin(w, session_id, language, ums)
       \/ process_session_mark(w)
       \/ \E oracle \in AllOracles : process_session_image(w, oracle)
       \/ process_session_finish(w)
       \/ \E session_id \in SessionIds, order \in OrderInputs :
             reorder_images(w, session_id, order)
       \/ \E image_id \in ImageIds : delete_image(w, image_id)
       \/ \E session_id \in SessionIds : delete_session(w, session_id)
       \/ \E session_id \in SessionIds, text \in EditTexts :
             edit_combined_text(w, session_id, text)
       \/ \E image_id \in ImageIds, language \in Languages, preprocessing \in Preprocessings :
             reprocess_begin(w, image_id, language, preprocessing)
       \/ \E oracle \in AllOracles : reprocess_image(w, oracle)

Spec == Init /\ [][Next]_vars

\* Sessions of up to MaxBatch images: upload, process-session with the
\* default language and strategies, and reorder with a permutation of the
\* members
NextBatch ==
    \E w \in Workers :
       \/ create_session(w, MaxSessions)
       \/ \E session_id \in SessionIds, files \in FileLists :
             upload_images(w, session_id, files, MaxBatch)
       \/ \E session_id \in SessionIds :
             process_session_begin(w, session_id, ABSENT, TRUE)
       \/ process_session_mark(w)
       \/ \E oracle \in AllOracles : process_session_image(w, oracle)
       \/ process_session_finish(w)
       \/ \E session_id \in SessionIds :
             \E order \in Perms(ImagesOf(images, session_id)) :
                reorder_images(w, session_id, order)

SpecBatch == Init /\ [][NextBatch]_vars

\* Up to MaxDeleteSessions sessions, their uploads, and delete-session
NextDelete ==
    \E w \in Workers :
       \/ create_session(w, MaxDeleteSessions)
       \/ \E session_id \in SessionIds, files \in FileLists :
             upload_images(w, session_id, files, MaxBatch)
       \/ \E session_id \in SessionIds : delete_session(w, session_id)

SpecDelete == Init /\ [][NextDelete]_vars

\* Two requests at a time, each in its own thread with its own database
\* session: thread 1 serves process-session, thread 2 serves upload and
\* reorder with a permutation of the members.  A step is what lies between
\* two commits of a process-session, or a whole request of the other kinds.
ConcWorkers == {1, 2}

InitConc ==
    /\ sessions = <<>>
    /\ images = <<>>
    /\ next_session_id = 1
    /\ next_image_id = 1
    /\ disk = {}
    /\ pc = [w \in ConcWorkers |-> "idle"]
    /\ loc = [w \in ConcWorkers |-> IdleLoc]
    /\ ocr = OcrIdle
    /\ cl = ClIdle
    /\ sc = ScIdle

NextConc ==
    \/ create_session(2, MaxSessions)
    \/ \E session_id \in SessionIds, files \in FileLists :
          upload_images(2, session_id, files, MaxConcImages)
    \/ \E session_id \in SessionIds :
          \E order \in Perms(ImagesOf(images, session_id)) :
             reorder_images(2, session_id, order)
    \/ \E session_id \in SessionIds :
          process_session_begin(1, session_id, ABSENT, TRUE)
    \/ process_session_mark(1)
    \/ \E oracle \in AllOracles : process_session_image(1, oracle)
    \/ process_session_finish(1)

SpecConc == InitConc /\ [][NextConc]_vars

\* Two uploads served by two threads.  The handler reads the maximum
\* order_index (lines 72-73) before it adds its images; the adds reach the
\* database with the flush of line 98 and the commit of line 99, which the
\* database serialises.  A step is what lies between the read and the commit.

\* the uploads of this section: lists of two entries whose last is a file
UploadBatches == {files \in [1..2 -> {"", "f"}] : files[2] # ""}

\* upload_images, lines 63-73: the session is loaded and the maximum read
upload_read(w, session_id, files) ==
    /\ Idle(w)
    /\ session_id \in SessionIds
    /\ next_image_id + NumFiles(files) - 1 <= MaxUploadImages
    /\ pc' = [pc EXCEPT ![w] = "up_insert"]
    /\ loc' = [loc EXCEPT ![w] =
                 [IdleLoc EXCEPT !.session_id = session_id,
                                 !.files = files,
                                 !.max_order = MaxOrder(images, session_id)]]
    /\ UNCHANGED <<dbVars, ocr, cl, sc>>

\* upload_images, lines 75-99: the images are added with the maximum read
\* before, the members counted, and all of it committed
upload_insert(w) ==
    /\ pc[w] = "up_insert"
    /\ LET session_id == loc[w].session_id
           r == AddFiles(images, loc[w].files, 1, loc[w].max_order,
                         session_id, next_image_id)
       IN  /\ images' = r.images
           /\ next_image_id' = r.next_id
           /\ disk' = disk \cup (next_image_id..(r.next_id - 1))
           /\ sessions' = [sessions EXCEPT ![session_id].image_count =
                              Cardinality(ImagesOf(r.images, session_id))]
    /\ pc' = [pc EXCEPT ![w] = "idle"]
    /\ loc' = [loc EXCEPT ![w] = IdleLoc]
    /\ UNCHANGED <<next_session_id, ocr, cl, sc>>

NextUpload ==
    \/ create_session(1, MaxSessions)
    \/ \E w \in ConcWorkers :
          \/ \E session_id \in SessionIds, files \in UploadBatches :
                upload_read(w, session_id, files)
          \/ upload_insert(w)

SpecUpload == InitConc /\ [][NextUpload]_vars

----------------------------------------------------------------------------
(* The recognition engine on one image, one attempt at a time *)

\* a text of n characters as image_to_string returns it, with the
\* surrounding whitespace strip() removes
OcrText(n) == <<" ">> \o [i \in 1..n |-> "a"] \o <<NL>>

\* the outcomes an attempt is run against: the call raises; no text; text
\* without token confidence; long text, low confidence; confidence 80 and 20
\* characters; confidence 81 and 21 characters; short text, high confidence
Outcomes ==
    { Raised,
      Outcome(FALSE, OcrText(0), 0),
      Outcome(FALSE, OcrText(21), 0),
      Outcome(FALSE, OcrText(120), 50),
      Outcome(FALSE, OcrText(20), 80),
      Outcome(FALSE, OcrText(21), 81),
      Outcome(FALSE, OcrText(5), 95) }

NoAttempt == [s |-> 0, k |-> 0, exc |-> FALSE, conf |-> 0, len |-> 0, kept |-> FALSE]

\* multi: extract_text_with_multiple_strategies, else extract_text_from_image
\* with STRATEGIES[s]; s, k: the strategy and the PSM mode being tried;
\* best_result, result, multi_best: the locals of the two loops; final: the
\* dict handed to the caller; last_attempt: the attempt executed last;
\* first_conf, first_score: the maxima seen so far, for the checks;
\* executed: the number of attempts executed; seen: 2 when an executed
\* attempt had confidence > 80 and more than 20 characters, else 1 when one
\* had confidence > 75 and more than 10 characters, else 0
OcrStart(multi, s) ==
    [stage |-> "psm", multi |-> multi, s |-> s, k |-> 1,
     best_result |-> InitBest, result |-> InitMultiBest,
     multi_best |-> InitMultiBest, final |-> InitMultiBest,
     last_attempt |-> NoAttempt, executed |-> 0, seen |-> 0,
     first_conf |-> [conf |-> 0, psm |-> 0],
     first_score |-> [score |-> 0, strategy |-> ABSENT, psm |-> 0]]

\* one iteration of the loop over psm_modes, lines 186-227; after the last
\* one, or a break, lines 229-243 build the result
ocr_attempt(o) ==
    /\ ocr.stage = "psm"
    /\ LET psm == PSM_MODES[ocr.k]
           best == IF o.exc THEN ocr.best_result ELSE KeepBest(ocr.best_result, psm, o)
           stop == ~o.exc /\ GoodEnough(o)
           len == Len(strip(o.text))
           over == stop \/ ocr.k = Len(PSM_MODES)
       IN  ocr' = [ocr EXCEPT
                     !.best_result = best,
                     !.k = IF over THEN @ ELSE @ + 1,
                     !.stage = IF over THEN "returned" ELSE "psm",
                     !.result = IF over THEN FinalResult(best) ELSE @,
                     !.last_attempt = [s |-> ocr.s, k |-> ocr.k, exc |-> o.exc,
                                       conf |-> o.conf, len |-> len,
                                       kept |-> best # ocr.best_result],
                     !.executed = @ + 1,
                     !.seen = IF ~o.exc /\ o.conf > 80 /\ len > 20 THEN 2
                              ELSE IF ~o.exc /\ o.conf > 75 /\ len > 10 /\ @ < 1 THEN 1
                              ELSE @,
                     !.first_conf = IF ~o.exc /\ len > 0 /\ o.conf > @.conf
                                    THEN [conf |-> o.conf, psm |-> psm] ELSE @]
    /\ UNCHANGED <<dbVars, pc, loc, cl, sc>>

\* extract_text_from_image returns to a caller that asked for one variant
ocr_return ==
    /\ ocr.stage = "returned"
    /\ ~ocr.multi
    /\ ocr' = [ocr EXCEPT !.stage = "done", !.final = ocr.result]
    /\ UNCHANGED <<dbVars, pc, loc, cl, sc>>

\* the loop over the strategies does not move on
ocr_select_again ==
    /\ ocr.stage = "returned"
    /\ ocr.multi
    /\ LET result == ocr.result
           best == SelectBest(ocr.multi_best, result, STRATEGIES[ocr.s])
           over == Excellent(result)
       IN  ocr' = [ocr EXCEPT
                     !.multi_best = best,
                     !.stage = IF over THEN "done" ELSE "psm",
                     !.final = IF over THEN best ELSE @,
                     !.k = IF over THEN @ ELSE 1,
                     !.best_result = IF over THEN @ ELSE InitBest]
    /\ UNCHANGED <<dbVars, pc, loc, cl, sc>>

\* the body of the loop over strategies after line 269, lines 271-287
ocr_select ==
    /\ ocr.stage = "returned"
    /\ ocr.multi
    /\ LET result == ocr.result
           best == SelectBest(ocr.multi_best, result, STRATEGIES[ocr.s])
           over == Excellent(result) \/ ocr.s = Len(STRATEGIES)
           score == Score(result.confidence, Len(strip(result.text)))
       IN  ocr' = [ocr EXCEPT
                     !.multi_best = best,
                     !.stage = IF over THEN "done" ELSE "psm",
                     !.final = IF over THEN best ELSE @,
                     !.s = IF over THEN @ ELSE @ + 1,
                     !.k = IF over THEN @ ELSE 1,
                     !.best_result = IF over THEN @ ELSE InitBest,
                     !.first_conf = IF over THEN @ ELSE [conf |-> 0, psm |-> 0],
                     !.first_score = IF result.success /\ score > @.score
                                     THEN [score |-> score, strategy |-> STRATEGIES[ocr.s],
                                           psm |-> ocr.first_conf.psm]
                                     ELSE @]
    /\ UNCHANGED <<dbVars, pc, loc, cl, sc>>

InitOcr ==
    /\ sessions = <<>>
    /\ images = <<>>
    /\ next_session_id = 1
    /\ next_image_id = 1
    /\ disk = {}
    /\ pc = [w \in Workers |-> "idle"]
    /\ loc = [w \in Workers |-> IdleLoc]
    /\ ocr \in {OcrStart(TRUE, 1)} \cup {OcrStart(FALSE, s) : s \in 1..Len(STRATEGIES)}
    /\ cl = ClIdle
    /\ sc = ScIdle

NextOcr ==
    \/ \E o \in Outcomes : ocr_attempt(o)
    \/ ocr_return
    \/ ocr_select

SpecOcr == InitOcr /\ [][NextOcr]_vars

----------------------------------------------------------------------------
(* process-session with the recognition engine run attempt by attempt *)

\* the outcomes an attempt is run against here: the call raises;
\* confidence 81 and 21 characters
RunOutcomes == { Raised, Outcome(FALSE, OcrText(21), 81) }

\* process_session, lines 136-139: the engine is called for the image
pipeline_start(w) ==
    /\ pc[w] = "ps_ocr"
    /\ ocr.stage = "off"
    /\ ocr' = IF loc[w].use_multiple_strategies
              THEN OcrStart(TRUE, 1)
              ELSE OcrStart(FALSE, StrategyIndex("basic"))
    /\ UNCHANGED <<dbVars, pc, loc, cl, sc>>

\* process_session, lines 141-169: the result of the engine is stored
process_session_store(w) ==
    /\ pc[w] = "ps_ocr"
    /\ ocr.stage = "done"
    /\ LET image_id == loc[w].images[loc[w].i]
           result == ocr.final
           image == StoreResult(images[image_id], result)
           l == AfterImage(loc[w], image, result, ResultEntry(image_id, image, result))
       IN  /\ images' = [images EXCEPT ![image_id] = image]
           /\ loc' = [loc EXCEPT ![w] = l]
           /\ pc' = [pc EXCEPT ![w] =
                       IF l.i <= Len(l.images) THEN "ps_mark" ELSE "ps_finish"]
    /\ ocr' = OcrIdle
    /\ UNCHANGED <<sessions, next_session_id, next_image_id, disk, cl, sc>>

\* a recognition call that does not return: pytesseract is called without
\* a timeout (lines 203, 207) and waits for the tesseract process
ocr_hang ==
    /\ ocr.stage = "psm"
    /\ ocr' = [ocr EXCEPT !.stage = "hung"]
    /\ UNCHANGED <<dbVars, pc, loc, cl, sc>>

\* the steps of a request that is being served
PipelineStep ==
    \/ \E w \in Workers :
          \/ process_session_mark(w)
          \/ pipeline_start(w)
          \/ process_session_store(w)
          \/ process_session_finish(w)
    \/ \E o \in RunOutcomes : ocr_attempt(o)
    \/ ocr_return
    \/ ocr_select

NextRun ==
    \/ \E w \in Workers :
          \/ create_session(w, MaxSessions)
          \/ \E session_id \in SessionIds, files \in FileLists :
                upload_images(w, session_id, files, MaxRunImages)
          \/ \E session_id \in SessionIds, ums \in BOOLEAN :
                process_session_begin(w, session_id, ABSENT, ums)
    \/ PipelineStep

\* process_session, lines 139-141: once the engine has returned, the handler
\* goes on to store the result; the step is seen on the engine's state
store_return(w) ==
    /\ pc[w] = "ps_ocr"
    /\ ocr.stage = "done"
    /\ ocr' = OcrIdle

\* the steps of a request between two stores
RequestStep ==
    \/ \E w \in Workers :
          \/ process_session_mark(w)
          \/ pipeline_start(w)
          \/ process_session_finish(w)
    \/ \E o \in RunOutcomes : ocr_attempt(o)
    \/ ocr_return
    \/ ocr_select

\* a request that is being served goes on: the server runs the handler to
\* its end, nothing in it waits for another request
RequestFairness ==
    /\ WF_vars(RequestStep)
    /\ \A w \in Workers : WF_ocr(store_return(w))

\* every recognition call returns
SpecRun == Init /\ [][NextRun]_vars /\ RequestFairness

NextHang == NextRun \/ ocr_hang

\* a recognition call may fail to return
SpecHang == Init /\ [][NextHang]_vars /\ RequestFairness

----------------------------------------------------------------------------
(* One call of extract_text_from_image *)

\* the values of the preprocessing argument: the three the docstring names
\* and one it does not
AdapterPreprocessings == {"advanced", "basic", "none", "sharpen"}

\* what one iteration may meet: the call raises (unreadable path, unknown
\* language, backend missing or timed out); no text; text without token
\* confidence; text with confidence 60; a long text with confidence 90
AdapterOutcomes ==
    { Raised,
      Outcome(FALSE, OcrText(0), 0),
      Outcome(FALSE, OcrText(3), 0),
      Outcome(FALSE, OcrText(3), 60),
      Outcome(FALSE, OcrText(11), 90) }

\* os[k]: the outcome of the iteration for PSM_MODES[k] under the variant
\* the preprocessing argument selects
adapter_call ==
    /\ ocr.stage = "call"
    /\ ocr' = [ocr EXCEPT !.stage = "result",
                          !.variant = STRATEGIES[StrategyIndex(ocr.preprocessing)],
                          !.result = extract_text_from_image(ocr.os)]
    /\ UNCHANGED <<dbVars, pc, loc, cl, sc>>

InitAdapter ==
    /\ sessions = <<>>
    /\ images = <<>>
    /\ next_session_id = 1
    /\ next_image_id = 1
    /\ disk = {}
    /\ pc = [w \in Workers |-> "idle"]
    /\ loc = [w \in Workers |-> IdleLoc]
    /\ ocr \in {[stage |-> "call", preprocessing |-> p, os |-> os,
                  variant |-> ABSENT, result |-> InitMultiBest] :
                    p \in AdapterPreprocessings,
                    os \in [1..Len(PSM_MODES) -> AdapterOutcomes]}
    /\ cl = ClIdle
    /\ sc = ScIdle

NextAdapter == adapter_call

SpecAdapter == InitAdapter /\ [][NextAdapter]_vars

----------------------------------------------------------------------------
(* One iteration of the loop over psm_modes, step by step *)

RAISE == "RAISE"

\* What the image does to the transforms: cv2 cannot read or process it
\* (advanced_throws), PIL cannot open or process it (basic_throws), PIL
\* cannot even open it (open_throws, then basic_throws as well, since the
\* basic transform starts with Image.open)
Envs ==
    {e \in [advanced_throws : BOOLEAN, basic_throws : BOOLEAN, open_throws : BOOLEAN] :
        e.open_throws => e.basic_throws}

\* preprocess_image_basic, lines 130-157: the image it hands back, named by
\* the variant that produced it; the except branch returns
\* Image.open(image_path), which may raise in its turn
preprocess_image_basic(e) ==
    IF ~e.basic_throws THEN "basic"
    ELSE IF ~e.open_throws THEN "none" ELSE RAISE

\* the except branch opens the image unprocessed
preprocess_image_advanced_to_none(e) ==
    IF ~e.advanced_throws THEN "advanced"
    ELSE IF ~e.open_throws THEN "none" ELSE RAISE

\* preprocess_image_advanced, lines 67-117: the except branch returns
\* self.preprocess_image_basic(image_path)
preprocess_image_advanced(e) ==
    IF ~e.advanced_throws THEN "advanced" ELSE preprocess_image_basic(e)

\* lines 188-195: the image the iteration works on
Normalize(preprocessing, e) ==
    IF preprocessing = "advanced" THEN preprocess_image_advanced(e)
    ELSE IF preprocessing = "basic" THEN preprocess_image_basic(e)
    ELSE IF e.open_throws THEN RAISE ELSE "none"

\* what image_to_string does: it raises, or returns a string
Reads ==
    {[exc |-> TRUE, text |-> <<>>]}
       \cup {[exc |-> FALSE, text |-> OcrText(n)] : n \in {0, 3, 11}}

\* what image_to_data does: it raises, or returns the confidences of the
\* tokens (the entries '-1' left out), which may be none
TokenReports ==
    {[exc |-> TRUE, conf |-> <<>>], [exc |-> FALSE, conf |-> <<>>],
     [exc |-> FALSE, conf |-> <<60>>], [exc |-> FALSE, conf |-> <<80, 100>>]}

RECURSIVE Sum(_)
Sum(xs) == IF xs = <<>> THEN 0 ELSE Head(xs) + Sum(Tail(xs))

\* lines 205-211: avg_confidence (the text plays no part in it)
AvgConfidence(tokens, text) ==
    IF tokens.exc \/ tokens.conf = <<>> THEN 0
    ELSE Sum(tokens.conf) \div Len(tokens.conf)

\* lines 187-211 as an outcome of the iteration
IterationOutcome(applied, read, tokens) ==
    IF applied = RAISE \/ read.exc THEN Raised
    ELSE Outcome(FALSE, read.text, AvgConfidence(tokens, read.text))

\* one iteration, lines 187-227, from best_result = {'text': '', 'confidence': 0}
attempt_iteration ==
    /\ ocr.stage = "try"
    /\ LET applied == Normalize(ocr.preprocessing, ocr.env)
           o == IterationOutcome(applied, ocr.read, ocr.tokens)
       IN  ocr' = [ocr EXCEPT
                     !.stage = "tried",
                     !.applied = applied,
                     !.recognized = applied # RAISE,
                     !.outcome = o,
                     !.best_result = IF o.exc THEN InitBest
                                     ELSE KeepBest(InitBest, ocr.psm, o),
                     !.result = FinalResult(IF o.exc THEN InitBest
                                            ELSE KeepBest(InitBest, ocr.psm, o))]
    /\ UNCHANGED <<dbVars, pc, loc, cl, sc>>

InitAttempt ==
    /\ sessions = <<>>
    /\ images = <<>>
    /\ next_session_id = 1
    /\ next_image_id = 1
    /\ disk = {}
    /\ pc = [w \in Workers |-> "idle"]
    /\ loc = [w \in Workers |-> IdleLoc]
    /\ ocr \in {[stage |-> "try", preprocessing |-> p, psm |-> PSM_MODES[k], env |-> e,
                  read |-> r, tokens |-> t, applied |-> ABSENT, recognized |-> FALSE,
                  outcome |-> Raised, best_result |-> InitBest, result |-> InitMultiBest] :
                    p \in {STRATEGIES[s] : s \in 1..Len(STRATEGIES)},
                    k \in 1..Len(PSM_MODES), e \in Envs, r \in Reads, t \in TokenReports}
    /\ cl = ClIdle
    /\ sc = ScIdle

NextAttempt == attempt_iteration

SpecAttempt == InitAttempt /\ [][NextAttempt]_vars

----------------------------------------------------------------------------
(* The text cleaner on its own *)

CleanChars == {"a", " ", NL, "\t"}

CleanInputs == UNION {[1..n -> CleanChars] : n \in 0..MaxLen}

clean_once ==
    /\ cl.stage = "input"
    /\ cl' = [cl EXCEPT !.stage = "once", !.y = clean_text(cl.x)]
    /\ UNCHANGED <<dbVars, pc, loc, ocr, sc>>

clean_twice ==
    /\ cl.stage = "once"
    /\ cl' = [cl EXCEPT !.stage = "twice", !.z = clean_text(cl.y)]
    /\ UNCHANGED <<dbVars, pc, loc, ocr, sc>>

InitClean ==
    /\ sessions = <<>>
    /\ images = <<>>
    /\ next_session_id = 1
    /\ next_image_id = 1
    /\ disk = {}
    /\ pc = [w \in Workers |-> "idle"]
    /\ loc = [w \in Workers |-> IdleLoc]
    /\ ocr = OcrIdle
    /\ cl \in {[stage |-> "input", x |-> x, y |-> <<>>, z |-> <<>>] : x \in CleanInputs}
    /\ sc = ScIdle

NextClean == clean_once \/ clean_twice

SpecClean == InitClean /\ [][NextClean]_vars

----------------------------------------------------------------------------
(* The score on its own *)

ScoreConfidences == {0, 1, 50, 100}
ScoreLengths == {0, 1, 50, 99, 100, 101, 150}

\* line 276 for two attempts of the same confidence
score_attempts ==
    /\ sc.stage = "input"
    /\ sc' = [sc EXCEPT !.stage = "scored",
                        !.score1 = Score(sc.confidence, sc.len1),
                        !.score2 = Score(sc.confidence, sc.len2)]
    /\ UNCHANGED <<dbVars, pc, loc, ocr, cl>>

InitScore ==
    /\ sessions = <<>>
    /\ images = <<>>
    /\ next_session_id = 1
    /\ next_image_id = 1
    /\ disk = {}
    /\ pc = [w \in Workers |-> "idle"]
    /\ loc = [w \in Workers |-> IdleLoc]
    /\ ocr = OcrIdle
    /\ cl = ClIdle
    /\ sc \in {[stage |-> "input", confidence |-> c, len1 |-> a, len2 |-> b,
                score1 |-> 0, score2 |-> 0] :
                  c \in ScoreConfidences, a \in ScoreLengths, b \in ScoreLengths}

NextScore == score_attempts

SpecScore == InitScore /\ [][NextScore]_vars

----------------------------------------------------------------------------
(* Claims about the recognition engine *)

Attempted == ocr'.last_attempt # ocr.last_attempt

WinnerIsFirstMaximum(o) ==
    IF o.multi
    THEN IF o.first_score.score = 0
         THEN o.final = InitMultiBest
         ELSE /\ o.final.success
              /\ o.final.strategy = o.first_score.strategy
              /\ o.final.psm_used = o.first_score.psm
              /\ Score(o.final.confidence, Len(o.final.text)) = o.first_score.score
    ELSE IF o.first_conf.conf = 0
         THEN ~o.final.success
         ELSE /\ o.final.success
              /\ o.final.psm_used = o.first_conf.psm
              /\ o.final.confidence = o.first_conf.conf

C8_ScoreMonotoneAndCapped ==
    sc.stage = "scored" =>
       /\ (sc.len1 <= sc.len2 => sc.score1 <= sc.score2)
       /\ (sc.len1 >= 100 /\ sc.len2 >= 100 =>
              sc.score1 = sc.score2 /\ sc.score1 = 2 * sc.confidence * 100)

C8_Witness ==
    /\ sc.stage = "scored"
    /\ sc.confidence = 50
    /\ sc.len1 = 100
    /\ sc.len2 = 150
    /\ sc.score1 = 10000

AllWhitespace(x) == \A i \in 1..Len(x) : x[i] \in Whitespace

\* C9: clean_text(clean_text(x)) = clean_text(x) for every x, and clean_text
\* of the empty string and of an all-whitespace string is the empty string.
C9_CleanIdempotent ==
    /\ cl.stage = "twice" => cl.z = cl.y
    /\ (cl.stage # "off" /\ cl.stage # "input" /\ AllWhitespace(cl.x)) => cl.y = <<>>

\* a text with padded lines and an empty line, cleaned twice
C9_Witness ==
    /\ cl.stage = "twice"
    /\ cl.x = <<" ", "a", NL, NL, "a">>
    /\ cl.y = <<"a", NL, "a">>
    /\ cl.z = cl.y

----------------------------------------------------------------------------
(* Claims about the session aggregator *)

Quiescent == \A w \in Workers : pc[w] = "idle"

TextOrEmpty(text) == IF text = NoText THEN <<>> ELSE text

\* the texts of the members whose status is completed, in the order given
RECURSIVE TextsOfCompleted(_, _)
TextsOfCompleted(imgs, order) ==
    IF order = <<>> THEN <<>>
    ELSE IF imgs[Head(order)].status = "completed"
         THEN <<TextOrEmpty(imgs[Head(order)].extracted_text)>>
                 \o TextsOfCompleted(imgs, Tail(order))
         ELSE TextsOfCompleted(imgs, Tail(order))

\* C1: whenever no request is being served, every session's combined_text
\* (a NULL column read as the empty text) is the '\n\n'-join of the texts of
\* its completed members in ascending order_index.
C1_CombinedTextIsJoin ==
    Quiescent =>
       \A session_id \in SessionIds :
          \E sorted \in OrderedImages(images, session_id) :
             TextOrEmpty(sessions[session_id].combined_text)
                = join(SEPARATOR, TextsOfCompleted(images, sorted))

\* C2: no two image units of the same session have the same order_index.
C2_OrderIndexUnique ==
    \A i, j \in ImageIds :
       (i # j /\ images[i].session_id = images[j].session_id)
          => images[i].order_index # images[j].order_index

Finished == {"completed", "failed"}

\* C3: when process-session has handled an image, when it returns, and when
\* reprocess-image returns, the status of the image units it handled is
\* completed or failed, never processing or pending.
C3_EndsCompletedOrFailed ==
    [][\A w \in Workers :
          /\ (pc[w] = "ps_ocr" /\ pc'[w] # "ps_ocr")
                => images'[loc[w].images[loc[w].i]].status \in Finished
          /\ (pc[w] = "ps_finish" /\ pc'[w] = "idle")
                => \A k \in 1..Len(loc[w].images) :
                      images'[loc[w].images[k]].status \in Finished
          /\ (pc[w] = "rp_ocr" /\ pc'[w] = "idle")
                => images'[loc[w].image_id].status \in Finished]_vars

\* process-session went through two images, one found text and one did not
C3_Witness ==
    /\ pc[1] = "ps_finish"
    /\ Len(loc[1].images) = 2
    /\ images[loc[1].images[1]].status = "completed"
    /\ images[loc[1].images[2]].status = "failed"

\* what C4 asks of an image unit once its recognition result is stored
StoredAsClaimed(image, result) ==
    IF result.success /\ result.text # <<>>
    THEN /\ image.status = "completed"
         /\ image.extracted_text = clean_text(result.text)
         /\ image.extracted_text # <<>>
         /\ image.extracted_text # NoText
    ELSE /\ image.status = "failed"
         /\ image.error_message # NULL

\* C4: after process-session or reprocess-image handles an image unit its
\* status is completed only if the winning result was successful with
\* non-empty text, and then extracted_text is that text cleaned and is not
\* empty; otherwise its status is failed and error_message is not null.
C4_CompletedOnlyWithText ==
    [][\A w \in Workers :
          /\ (pc[w] = "ps_ocr" /\ pc'[w] # "ps_ocr")
                => StoredAsClaimed(images'[loc[w].images[loc[w].i]], loc'[w].result)
          /\ (pc[w] = "rp_ocr" /\ pc'[w] = "idle")
                => \A oracle \in Oracles(loc[w].image_id) :
                      reprocess_image(w, oracle)
                         => StoredAsClaimed(images'[loc[w].image_id],
                                            RunOcr(oracle, FALSE, loc[w].preprocessing))]_vars

\* the image handled last found no text: it is failed with the message of
\* the caller, while an image handled before it is completed with its text
C4_Witness ==
    /\ pc[1] = "ps_finish"
    /\ ~loc[1].result.success
    /\ \E k \in 1..Len(loc[1].images) :
          /\ images[loc[1].images[k]].status = "completed"
          /\ images[loc[1].images[k]].extracted_text = <<IdChar[loc[1].images[k]], NL, "x">>
    /\ LET image == images[loc[1].images[Len(loc[1].images)]]
       IN  image.status = "failed" /\ image.error_message \in {ERR_NO_TEXT, ERR_NO_PSM}

\* C5: in process-session a failed image is marked failed with an error
\* message and nothing else changes, every image after it is still
\* processed, and the run ends with combined_text the join of the texts of
\* the images it completed, in the order it went.
C5_FailureIsIsolated ==
    [][\A w \in Workers :
          /\ (pc[w] = "ps_ocr" /\ pc'[w] # "ps_ocr")
                => LET image_id == loc[w].images[loc[w].i]
                   IN  /\ \A j \in ImageIds \ {image_id} : images'[j] = images[j]
                       /\ images'[image_id].status = "failed"
                             => images'[image_id].error_message # NULL
                       /\ pc'[w] = IF loc[w].i < Len(loc[w].images)
                                   THEN "ps_mark" ELSE "ps_finish"
          /\ (pc[w] = "ps_finish" /\ pc'[w] = "idle")
                => /\ Len(loc[w].results) = Len(loc[w].images)
                   /\ \A k \in 1..Len(loc[w].images) :
                         /\ loc[w].results[k].image_id = loc[w].images[k]
                         /\ loc[w].results[k].status = images'[loc[w].images[k]].status
                         /\ loc[w].results[k].status \in Finished
                   /\ sessions'[loc[w].session_id].combined_text
                         = join(SEPARATOR, TextsOfCompleted(images', loc[w].images))]_vars

\* a session of three images was processed, the second one failed
C5_Witness ==
    /\ Quiescent
    /\ ImageIds = {1, 2, 3}
    /\ \A i \in ImageIds : images[i].order_index = i - 1
    /\ images[1].status = "completed"
    /\ images[2].status = "failed"
    /\ images[2].error_message = ERR_NO_TEXT
    /\ images[3].status = "completed"
    /\ sessions[1].status = "completed"
    /\ sessions[1].combined_text = <<"1", NL, "x", NL, NL, "3", NL, "x">>

\* C10: after reorder with a permutation of all the members of the session,
\* the members listed by ascending order_index are the permutation, and
\* combined_text is the '\n\n'-join of the completed members' texts in it.
C10_ReorderPermutation ==
    [][\A w \in Workers : \A session_id \in SessionIds :
          \A order \in Perms(ImagesOf(images, session_id)) :
             reorder_images(w, session_id, order)
                => /\ OrderedImages(images', session_id) = {order}
                   /\ sessions'[session_id].combined_text
                         = join(SEPARATOR, TextsOfCompleted(images', order))]_vars

\* three completed images put in the order 3, 1, 2
C10_Witness ==
    /\ Quiescent
    /\ ImageIds = {1, 2, 3}
    /\ images[3].order_index = 0
    /\ images[1].order_index = 1
    /\ images[2].order_index = 2
    /\ \A i \in ImageIds : images[i].status = "completed"
    /\ sessions[1].combined_text
          = <<"3", NL, "x", NL, NL, "1", NL, "x", NL, NL, "2", NL, "x">>

----------------------------------------------------------------------------
(* Claims about reorder, reprocess and delete *)

\* combined_text of the session is the join over its completed members
IsJoin(sess, imgs, session_id) ==
    \E sorted \in OrderedImages(imgs, session_id) :
       TextOrEmpty(sess[session_id].combined_text)
          = join(SEPARATOR, TextsOfCompleted(imgs, sorted))

\* C11: a reorder whose list is not a permutation of the members of the
\* session (an unknown id, an id of another session, a duplicate, a member
\* left out) leaves every order_index and combined_text (a NULL column read
\* as the empty text) as they were.
C11_InvalidReorderRejected ==
    [][\A w \in Workers : \A session_id \in SessionIds : \A order \in OrderInputs :
          (order \notin Perms(ImagesOf(images, session_id))
              /\ reorder_images(w, session_id, order))
             => /\ images' = images
                /\ TextOrEmpty(sessions'[session_id].combined_text)
                      = TextOrEmpty(sessions[session_id].combined_text)]_vars

\* C12: after reprocess-image on an image of an already processed session
\* whose combined_text was the join of its completed members' texts,
\* combined_text is again that join: the image's new text in its position,
\* or nothing for it when it failed, the other contributions unchanged.
C12_ReprocessRecomputes ==
    [][\A w \in Workers :
          (/\ pc[w] = "rp_ocr" /\ pc'[w] = "idle"
           /\ loc[w].session_id \in SessionIds
           /\ sessions[loc[w].session_id].status = "completed"
           /\ IsJoin(sessions, images, loc[w].session_id))
             => IsJoin(sessions', images', loc[w].session_id)]_vars

\* C13: reprocess-image changes nothing but the status, extracted_text and
\* error_message of the image it was called for: that image keeps its
\* order_index and its session, and no other image unit changes, appears or
\* disappears.
C13_ReprocessFrame ==
    [][\A w \in Workers :
          (pc[w] = "rp_ocr" /\ pc'[w] = "idle")
             => LET image_id == loc[w].image_id
                IN  /\ DOMAIN images' = DOMAIN images
                    /\ images'[image_id].order_index = images[image_id].order_index
                    /\ images'[image_id].session_id = images[image_id].session_id
                    /\ \A j \in ImageIds \ {image_id} : images'[j] = images[j]]_vars

\* the session was never processed as a whole: the first image was
\* reprocessed on its own and completed, the second one is still pending
C13_Witness ==
    /\ Quiescent
    /\ ImageIds = {1, 2}
    /\ sessions[1].status = "active"
    /\ images[1].status = "completed"
    /\ images[1].order_index = 0
    /\ images[2] = NewImage(1, 1)

\* C14: after delete-image of a completed image of a session whose
\* combined_text was the join of its completed members' texts, combined_text
\* is the join of the remaining completed members' texts in order.
C14_DeleteRecomputes ==
    [][\A w \in Workers : \A image_id \in ImageIds :
          (/\ delete_image(w, image_id)
           /\ images[image_id].status = "completed"
           /\ IsJoin(sessions, images, images[image_id].session_id))
             => IsJoin(sessions', images', images[image_id].session_id)]_vars

\* C15: delete-session removes the session record, every image unit of the
\* session and the backing file of each of them; the other sessions, their
\* image units and the files of those stay as they are.
C15_DeleteSessionCascade ==
    [][\A w \in Workers : \A session_id \in SessionIds :
          delete_session(w, session_id)
             => /\ session_id \notin DOMAIN sessions'
                /\ ImagesOf(images', session_id) = {}
                /\ \A j \in ImagesOf(images, session_id) : j \notin disk'
                /\ \A t \in SessionIds \ {session_id} :
                      t \in DOMAIN sessions' /\ sessions'[t] = sessions[t]
                /\ \A j \in ImageIds \ ImagesOf(images, session_id) :
                      /\ j \in DOMAIN images' /\ images'[j] = images[j]
                      /\ j \in disk <=> j \in disk']_vars

\* session 1 was deleted with its two images, the image of session 2 and its
\* file are still there
C15_Witness ==
    /\ SessionIds = {2}
    /\ next_image_id = 4
    /\ ImageIds = {2}
    /\ images[2].session_id = 2
    /\ disk = {2}

----------------------------------------------------------------------------
(* Claims about the course of process-session *)

\* the list holds every member of the session once, in ascending order_index
AscendingMembers(list, imgs, session_id) ==
    /\ Len(list) = Cardinality(ImagesOf(imgs, session_id))
    /\ {list[k] : k \in 1..Len(list)} = ImagesOf(imgs, session_id)
    /\ \A a, b \in 1..Len(list) :
          a < b => imgs[list[a]].order_index <= imgs[list[b]].order_index

\* C16: process-session takes the members of the session in ascending
\* order_index, one at a time: the pipeline of an image starts only when
\* every image before it is completed or failed and no image after it was
\* touched, each step moves on by exactly one image, and when the run
\* returns every member was handled once and combined_text is the
\* '\n\n'-join of the texts of the completed members in ascending
\* order_index.
C16_ProcessInOrder ==
    [][\A w \in Workers :
          /\ (pc[w] = "idle" /\ pc'[w] = "ps_mark")
                => /\ AscendingMembers(loc'[w].images, images, loc'[w].session_id)
                   /\ loc'[w].i = 1
          /\ (pc[w] = "ps_mark" /\ pc'[w] = "ps_ocr")
                => /\ \A k \in 1..(loc[w].i - 1) :
                         images'[loc[w].images[k]].status \in Finished
                   /\ images'[loc[w].images[loc[w].i]].status = "processing"
                   /\ \A k \in (loc[w].i + 1)..Len(loc[w].images) :
                         images'[loc[w].images[k]] = images[loc[w].images[k]]
          /\ (pc[w] = "ps_ocr" /\ pc'[w] # "ps_ocr")
                => /\ loc'[w].i = loc[w].i + 1
                   /\ Len(loc'[w].results) = loc[w].i
                   /\ pc'[w] = "ps_finish" <=> loc[w].i = Len(loc[w].images)
          /\ (pc[w] = "ps_finish" /\ pc'[w] = "idle")
                => /\ AscendingMembers(loc[w].images, images', loc[w].session_id)
                   /\ \A k \in 1..Len(loc[w].images) :
                         loc[w].results[k].image_id = loc[w].images[k]
                   /\ sessions'[loc[w].session_id].combined_text
                         = join(SEPARATOR, TextsOfCompleted(images', loc[w].images))]_vars

\* after a reorder the run goes 2, 1: image 2 is completed, the pipeline of
\* image 1 is running
C16_Witness ==
    /\ pc[1] = "ps_ocr"
    /\ loc[1].images = <<2, 1>>
    /\ loc[1].i = 2
    /\ images[2].order_index < images[1].order_index
    /\ images[2].status = "completed"
    /\ images[1].status = "processing"

\* C17: whenever the recognition pipeline is running for an image unit, in
\* process-session or in reprocess-image, the committed status of that unit
\* is processing.
C17_ProcessingPersisted ==
    \A w \in Workers :
       /\ pc[w] = "ps_ocr" => images[loc[w].images[loc[w].i]].status = "processing"
       /\ pc[w] = "rp_ocr" => images[loc[w].image_id].status = "processing"

\* C18: requests on the same session do not interleave, so that once every
\* request has returned combined_text of every session is the '\n\n'-join of
\* the texts of its completed members in the final order_index order.
C18_SerializedOutcome ==
    (\A w \in DOMAIN pc : pc[w] = "idle")
       => \A session_id \in SessionIds : IsJoin(sessions, images, session_id)

----------------------------------------------------------------------------
(* Claims about the recognition adapter *)

\* C19: extract_text_from_image returns a record whatever the backend does;
\* when every attempt raised the record has success = false, empty text,
\* confidence 0 and an error reason; success = true implies a non-empty
\* text, and success = false an error reason.
C19_AdapterNeverRaises ==
    ocr.stage = "result" =>
       /\ {"success", "text", "confidence", "error"} \subseteq DOMAIN ocr.result
       /\ ocr.result.success \in BOOLEAN
       /\ (\A k \in 1..Len(PSM_MODES) : ocr.os[k].exc)
             => /\ ~ocr.result.success
                /\ ocr.result.text = <<>>
                /\ ocr.result.confidence = 0
                /\ ocr.result.error \notin {NULL, ABSENT}
       /\ ocr.result.success => ocr.result.text # <<>>
       /\ ~ocr.result.success => ocr.result.error \notin {NULL, ABSENT}

\* the backend raised in each of the six iterations
C19_Witness ==
    /\ ocr.stage = "result"
    /\ \A k \in 1..Len(PSM_MODES) : ocr.os[k] = Raised
    /\ ocr.preprocessing = "sharpen"
    /\ ocr.result.error = ERR_NO_PSM

\* the cost of a preprocessing variant, cheapest first
VariantCost(strategy) ==
    IF strategy = "none" THEN 1 ELSE IF strategy = "basic" THEN 2 ELSE 3

\* the place of a segmentation mode in the claimed order: whole-page
\* automatic (3), single block (6), single column (4), sparse text (11, 12);
\* automatic with OSD (1), which the claim does not place, counts with the
\* mode it follows in the plan
SegmentationRank(psm) ==
    IF psm = 3 THEN 1
    ELSE IF psm = 6 THEN 2
    ELSE IF psm = 4 \/ psm = 1 THEN 3 ELSE 4

\* C20: the attempts for one image go through the preprocessing variants
\* from the cheapest to the most aggressive (none, basic, advanced), and
\* within a variant from whole-page automatic segmentation over single
\* block and single column to the sparse-text modes: the first attempt is
\* whole-page automatic under none, a later attempt of the same variant
\* never has an earlier mode, and a change of variant goes to a more
\* aggressive one and starts again with whole-page automatic.
C20_PlannedAttemptOrder ==
    [][Attempted =>
          LET a == ocr'.last_attempt
              b == ocr.last_attempt
          IN  /\ (ocr.multi /\ b = NoAttempt)
                    => STRATEGIES[a.s] = "none" /\ PSM_MODES[a.k] = 3
              /\ (b # NoAttempt /\ a.s = b.s)
                    => SegmentationRank(PSM_MODES[b.k]) <= SegmentationRank(PSM_MODES[a.k])
              /\ (b # NoAttempt /\ a.s # b.s)
                    => /\ VariantCost(STRATEGIES[b.s]) < VariantCost(STRATEGIES[a.s])
                       /\ PSM_MODES[a.k] = 3]_vars

----------------------------------------------------------------------------
(* Claims about one iteration *)

TransformThrows(o) ==
    \/ o.preprocessing = "advanced" /\ o.env.advanced_throws
    \/ o.preprocessing = "basic" /\ o.env.basic_throws

----------------------------------------------------------------------------
(* Claims about what is recorded for a failure *)

\* every recognition call raises; every call runs and finds no text
RaisingOracle == [s \in 1..Len(STRATEGIES) |-> AllPsm(Raised)]
BlankOracle == [s \in 1..Len(STRATEGIES) |-> AllPsm(Outcome(FALSE, BlankText, 0))]

\* C22: for an image in the pipeline of process-session or reprocess-image,
\* the error reason recorded on the image unit, and the one in the result,
\* when the backend raises in every attempt differ from those when every
\* attempt runs and finds no text.
C22_BackendFailureDistinct ==
    \A w \in Workers :
       pc[w] \in {"ps_ocr", "rp_ocr"} =>
          LET image == IF pc[w] = "ps_ocr" THEN images[loc[w].images[loc[w].i]]
                       ELSE images[loc[w].image_id]
              raised == IF pc[w] = "ps_ocr"
                        THEN RunOcr(RaisingOracle, loc[w].use_multiple_strategies, "basic")
                        ELSE RunOcr(RaisingOracle, FALSE, loc[w].preprocessing)
              blank == IF pc[w] = "ps_ocr"
                       THEN RunOcr(BlankOracle, loc[w].use_multiple_strategies, "basic")
                       ELSE RunOcr(BlankOracle, FALSE, loc[w].preprocessing)
          IN  /\ StoreResult(image, raised).error_message
                    # StoreResult(image, blank).error_message
              /\ Get(raised.error, NULL) # Get(blank.error, NULL)

\* C23: an attempt that returns non-empty text while the token confidence
\* is unavailable (the query raised or reported no token) gets a positive
\* confidence, higher for more than 10 characters than for fewer, and
\* remains eligible: being the only attempt so far it is the running best
\* and the result it leads to is a success.
C23_HeuristicConfidence ==
    (/\ ocr.stage = "tried"
     /\ ocr.recognized /\ ~ocr.read.exc /\ Len(strip(ocr.read.text)) > 0
     /\ (ocr.tokens.exc \/ ocr.tokens.conf = <<>>))
       => /\ ocr.outcome.conf > 0
          /\ ocr.best_result.text = strip(ocr.read.text)
          /\ ocr.result.success

----------------------------------------------------------------------------
(* Claims about the plan of attempts *)

\* the number of attempts planned for one image
Planned(o) ==
    IF o.multi THEN Len(STRATEGIES) * Len(PSM_MODES) ELSE Len(PSM_MODES)

\* C27 as stated: if no executed attempt had confidence > 80 together with
\* more than 20 characters, every planned attempt was executed when the
\* winner is chosen.
C27_ExhaustiveAsStated ==
    (ocr.stage = "done" /\ ocr.seen < 2) => ocr.executed = Planned(ocr)

\* C27 amended: attempts are skipped only because of the two stop rules; if
\* no executed attempt had confidence > 75 together with more than 10
\* characters, every planned attempt was executed when the winner is
\* chosen.
C27_Exhaustive ==
    (ocr.stage = "done" /\ ocr.seen < 1) => ocr.executed = Planned(ocr)

\* all eighteen attempts ran, none stopped a loop, and a winner was chosen
C27_Witness ==
    /\ ocr.stage = "done"
    /\ ocr.multi
    /\ ocr.seen = 0
    /\ ocr.executed = 18
    /\ ocr.final.success

\* C24: the attempts for one image follow the plan strictly forward (a
\* later mode of the same variant, or a later variant), so none is repeated
\* and at most 18 are executed in multi-strategy mode and 6 in
\* single-variant mode; and, every recognition call returning, a
\* process-session that was started returns, having handled each image once.
C24_BoundedAttempts ==
    /\ [][(ocr.stage = "psm" /\ ocr'.stage # "hung" /\ Attempted) =>
             LET a == ocr'.last_attempt
                 b == ocr.last_attempt
             IN  /\ a.s \in 1..Len(STRATEGIES) /\ a.k \in 1..Len(PSM_MODES)
                 /\ b # NoAttempt => (b.s < a.s \/ (b.s = a.s /\ b.k < a.k))
                 /\ (b # NoAttempt /\ ~ocr.multi) => a.s = b.s
                 /\ ocr'.executed <= Planned(ocr)]_vars
    /\ [][\A w \in Workers :
             (pc[w] = "ps_finish" /\ pc'[w] = "idle")
                => /\ Len(loc[w].results) = Len(loc[w].images)
                   /\ \A k \in 1..Len(loc[w].images) :
                         loc[w].results[k].image_id = loc[w].images[k]]_vars
    /\ \A w \in Workers : (pc[w] # "idle") ~> (pc[w] = "idle")

\* the engine has gone through all eighteen attempts for the second image
\* of a session
C24_Witness ==
    /\ pc[1] = "ps_ocr"
    /\ loc[1].i = 2
    /\ ocr.stage = "done"
    /\ ocr.multi
    /\ ocr.executed = 18

\* C25: a recognition call that does not return is given up after a bounded
\* wait and counts as a failed attempt, so a process-session that was
\* started returns even if a backend call hangs.
C25_HungCallTimesOut ==
    \A w \in Workers : (pc[w] # "idle") ~> (pc[w] = "idle")

\* C26: after any sequence of uploads and image deletions the image_count
\* of every session is the number of image units that belong to it.
C26_ImageCountIsMemberCount ==
    \A session_id \in SessionIds :
        sessions[session_id].image_count = Cardinality(ImagesOf(images, session_id))

\* two images were uploaded and the first one was deleted
C26_Witness ==
    /\ SessionIds = {1}
    /\ ImageIds = {2}
    /\ next_image_id = 3
    /\ sessions[1].image_count = 1

\* C28: the result fields of an image unit agree with its status: a
\* completed unit has no error_message, a failed unit has no extracted_text,
\* and the entry process-session returns for a failed image carries no text.
C28_FieldsConsistentWithStatus ==
    /\ \A image_id \in ImageIds :
          /\ images[image_id].status = "completed"
                => images[image_id].error_message = NULL
          /\ images[image_id].status = "failed"
                => ~Truthy(images[image_id].extracted_text)
    /\ \A w \in Workers : \A k \in 1..Len(loc[w].results) :
          loc[w].results[k].status = "failed" => ~Truthy(loc[w].results[k].text)

\* C30: a request that names no language invokes the recognition service
\* with the language the service itself defaults to, as a request that names
\* that language does.
C30_OmittedLanguageIsServiceDefault ==
    \A w \in Workers :
        pc[w] \in {"ps_mark", "ps_ocr", "rp_ocr"} => loc[w].lang = SERVICE_DEFAULT_LANG

\* C29: the images that two uploads running at the same time add to one
\* session have pairwise distinct order_index values.
C29_ConcurrentUploadsDistinctOrder ==
    \A i, j \in ImageIds :
        (i # j /\ images[i].session_id = images[j].session_id)
           => images[i].order_index # images[j].order_index

====
